---------------------------- MODULE Spec2Model ----------------------------
(***************************************************************************)
(* Model of cdk_chalice/chalice.py: the Chalice construct, which merges a  *)
(* stage configuration into SOURCE_DIR/.chalice/config.json, packages the  *)
(* application (in a docker container or as a child process), rewrites the *)
(* generated SAM template and includes it in the construct tree.           *)
(*                                                                         *)
(* Text files are sequences of tokens.  A JSON document is a token         *)
(* sequence over "{", "}", string atoms and insignificant whitespace; a    *)
(* parsed JSON value is a tagged record: an atom, or a dict kept as the    *)
(* sequence of its <<key, value>> items in insertion order (a Python       *)
(* dict).                                                                  *)
(***************************************************************************)
EXTENDS Integers, Sequences, FiniteSets, TLC

VARIABLES
    config_file,    \* SOURCE_DIR/.chalice/config.json: [exists, content]
    orig_file,      \* config.json as it was before the call
    stage_name,     \* self.stage_name
    stage_config,   \* self.stage_config
    docker_args,    \* the arguments DockerConfig was made with, if it was
    docker_config,  \* self.docker_config
    os_environ,     \* os.environ of the calling process
    pc,             \* position of Chalice.__init__
    error,          \* the exception that left Chalice.__init__, if any
    trace,          \* the steps of __init__ started so far, with their outcome
    handle_open,    \* whether a handle on config.json is still open
    runner_calls,   \* the runners invoked, with what each was given
    runtime_error,  \* what the container runtime raised, if anything
    build_exit,     \* exit status of the build tool (-1: it never ran)
    out_dir,        \* chalice.out/<uuid>: [manifest, archive]
    assets,         \* assets.Asset constructions, in order
    sam_template,   \* the template returned by _update_sam_template
    included,       \* cdk.CfnInclude constructions, in order
    procs,          \* concurrent merges: each invocation's local state
    overlap         \* concurrent merges: an invocation opened the store
                    \* while another one was between open and close

vars == <<config_file, orig_file, stage_name, stage_config, docker_args,
          docker_config,
          os_environ, pc, error, trace, handle_open, runner_calls,
          runtime_error, build_exit, out_dir, assets, sam_template,
          included, procs, overlap>>

---------------------------------------------------------------------------
(* Bounds of the model.                                                    *)

\* most function resources in a generated template
MaxFunctions == 2
\* most non-function resources in a generated template
MaxOthers == 1
\* most init commands of a DockerConfig
MaxInitCommands == 1

---------------------------------------------------------------------------
(* JSON values, json.dumps and json.load.                                  *)

Atom(a) == [t |-> "atom", v |-> <<a>>]
Dict(items) == [t |-> "dict", v |-> items]
IsDict(x) == x.t = "dict"

RECURSIVE HasKey(_, _)
\* key in d, for the item sequence d of a dict
HasKey(d, k) ==
    IF d = <<>> THEN FALSE
    ELSE IF d[1][1] = k THEN TRUE ELSE HasKey(Tail(d), k)

RECURSIVE DictGet(_, _)
\* d[k], for a key that d has
DictGet(d, k) ==
    IF d[1][1] = k THEN d[1][2] ELSE DictGet(Tail(d), k)

RECURSIVE DictSet(_, _, _)
\* d[k] = v: an existing key keeps its place, a new key goes last
DictSet(d, k, v) ==
    IF d = <<>> THEN << <<k, v>> >>
    ELSE IF d[1][1] = k THEN << <<k, v>> >> \o Tail(d)
    ELSE <<d[1]>> \o DictSet(Tail(d), k, v)

RECURSIVE DictDel(_, _)
\* the items of d other than key k, in order
DictDel(d, k) ==
    IF d = <<>> THEN <<>>
    ELSE IF d[1][1] = k THEN DictDel(Tail(d), k)
    ELSE <<d[1]>> \o DictDel(Tail(d), k)

RECURSIVE json_dumps(_)
RECURSIVE DumpItems(_)
\* json.dumps(x, indent=2): the tokens of x, no trailing newline
json_dumps(x) ==
    IF IsDict(x) THEN <<"{">> \o DumpItems(x.v) \o <<"}">>
    ELSE x.v
DumpItems(d) ==
    IF d = <<>> THEN <<>>
    ELSE <<d[1][1]>> \o json_dumps(d[1][2]) \o DumpItems(Tail(d))

IsSpace(tok) == tok = "WS"
ParseFail == [ok |-> FALSE, val |-> Atom("?"), next |-> 0]

RECURSIVE ParseValue(_, _)
RECURSIVE ParseItems(_, _, _)
\* the JSON value that starts at token i of s, and where it ends
ParseValue(s, i) ==
    IF i > Len(s) THEN ParseFail
    ELSE IF s[i] = "}" \/ s[i] = "NUL" THEN ParseFail
    ELSE IF s[i] = "{" THEN ParseItems(s, i + 1, <<>>)
    ELSE [ok |-> TRUE, val |-> Atom(s[i]), next |-> i + 1]
\* the items of an object whose "{" has been read; a repeated key keeps
\* its last value
ParseItems(s, i, acc) ==
    IF i > Len(s) THEN ParseFail
    ELSE IF s[i] = "}" THEN [ok |-> TRUE, val |-> Dict(acc), next |-> i + 1]
    ELSE IF s[i] = "{" \/ s[i] = "NUL" THEN ParseFail
    ELSE LET r == ParseValue(s, i + 1)
         IN  IF ~r.ok THEN ParseFail
             ELSE ParseItems(s, r.next, DictSet(acc, s[i], r.val))

\* json.load(f): the whole text must be one value; [ok, val]
json_load(text) ==
    LET s == SelectSeq(text, LAMBDA tok : ~IsSpace(tok))
        r == ParseValue(s, 1)
    IN  IF r.ok /\ r.next = Len(s) + 1
        THEN [ok |-> TRUE, val |-> r.val]
        ELSE [ok |-> FALSE, val |-> Atom("?")]

---------------------------------------------------------------------------
(* A file opened 'r+': seek(0), write(text), truncate().                   *)

\* write(text) at offset pos: overwrites, and extends the file if needed
FileWrite(content, pos, text) ==
    SubSeq(content, 1, pos) \o text
        \o SubSeq(content, pos + Len(text) + 1, Len(content))

\* variant: no truncate() after the write
FileNotTruncated(content, pos) == content

\* truncate() at offset pos: cuts the file there (a shorter file is padded)
FileTruncate(content, pos) ==
    IF pos <= Len(content) THEN SubSeq(content, 1, pos)
    ELSE content \o [i \in 1..(pos - Len(content)) |-> "NUL"]

---------------------------------------------------------------------------
(* Chalice._create_stage_with_config.                                      *)

\* variant: config['stages'] = {stage_name: stage_config}
MergedConfigOnlyStage(config, S, C) ==
    Dict(DictSet(config.v, "stages", Dict(<< <<S, C>> >>)))

\* config['stages'][self.stage_name] = self.stage_config
MergedConfig(config, S, C) ==
    Dict(DictSet(config.v, "stages",
                 Dict(DictSet(DictGet(config.v, "stages").v, S, C))))

\* the exception that assignment raises, "" when it raises none
SubscriptError(config) ==
    IF ~IsDict(config) THEN "TypeError"
    ELSE IF ~HasKey(config.v, "stages") THEN "KeyError"
    ELSE IF ~IsDict(DictGet(config.v, "stages")) THEN "TypeError"
    ELSE ""

\* config_file.seek(0): the offset write() and truncate() then work from
SeekStart(pos) == 0

\* variant: open() and close() without a with block
OpenAfterPlainOpen(raised) == raised

\* whether the handle opened by 'with open(...)' is open once the block is
\* left, normally or by an exception
OpenAfterWith(raised) == FALSE

\* the whole method on a store file f: [raised, file, handle_open]
create_stage_with_config(f, S, C) ==
    IF ~f.exists
    THEN [raised |-> "FileNotFoundError", file |-> f, handle_open |-> FALSE]
    ELSE LET loaded == json_load(f.content)
             exc == IF ~loaded.ok THEN "JSONDecodeError"
                    ELSE SubscriptError(loaded.val)
         IN  IF exc # ""
             THEN [raised |-> exc, file |-> f,
                   handle_open |-> OpenAfterWith(TRUE)]
             ELSE LET text == json_dumps(MergedConfig(loaded.val, S, C))
                      pos == SeekStart(Len(f.content))
                      written == FileWrite(f.content, pos, text)
                  IN  [raised |-> "",
                       file |-> [exists |-> TRUE,
                                 content |-> FileTruncate(written,
                                                          pos + Len(text))],
                       handle_open |-> OpenAfterWith(FALSE)]

---------------------------------------------------------------------------
(* Environments and DockerConfig.                                          *)

EmptyEnv == [k \in {} |-> ""]

\* variant: d[k] = v
setitem(d, k, v) ==
    [x \in DOMAIN d \cup {k} |-> IF x = k THEN v ELSE d[x]]

\* d.setdefault(k, v)
setdefault(d, k, v) ==
    IF k \in DOMAIN d THEN d
    ELSE [x \in DOMAIN d \cup {k} |-> IF x = k THEN v ELSE d[x]]

\* the default image, named after the running Python version
DefaultImage == "lambci/lambda:build-python3.7"

\* an optional argument: None, or a value
None(dflt) == [given |-> FALSE, val |-> dflt]
Some(x) == [given |-> TRUE, val |-> x]

\* DockerConfig.__init__(image, env, init_commands)
DockerConfigInit(image, env, init_commands) ==
    [present |-> TRUE,
     image |-> IF image = "" THEN DefaultImage ELSE image,
     env |-> setdefault(IF env.given /\ DOMAIN env.val # {}
                        THEN env.val ELSE EmptyEnv,
                        "AWS_DEFAULT_REGION", "us-east-1"),
     init_commands |-> IF init_commands.given /\ init_commands.val # <<>>
                       THEN init_commands.val ELSE <<>>]

\* docker_config=None
NoDockerConfig ==
    [present |-> FALSE, image |-> "", env |-> EmptyEnv, init_commands |-> <<>>]

---------------------------------------------------------------------------
(* Chalice._package_app and the two runners.                               *)

NoError == [type |-> "", message |-> <<>>]
Raise(type, message) == [type |-> type, message |-> message]

\* variant: the test the other way round
SelectRunnerInverted(dc) == IF dc.present THEN "subprocess" ELSE "container"

\* 'if self.docker_config is not None': the runner _package_app calls
SelectRunner(dc) == IF dc.present THEN "container" ELSE "subprocess"

\* docker_command: the init commands, the requirements, then the package
docker_command(init_commands, S) ==
    <<"bash", "-c">> \o init_commands
        \o <<"pip install --no-cache-dir -r requirements.txt",
             "chalice package --stage", S, "/chalice.out">>

\* client.containers.run(image, ..., remove=True): what the runtime raises.
\* It waits for the container and raises ContainerError on a non-zero exit.
containers_run(image, daemon_ok, image_found, exit) ==
    IF ~daemon_ok THEN Raise("APIError", <<"500 Server Error">>)
    ELSE IF ~image_found THEN Raise("NotFound", <<"404 Client Error", image>>)
    ELSE IF exit # 0 THEN Raise("ContainerError", <<"non-zero exit", image>>)
    ELSE NoError

\* variant: except Exception: raise ChaliceError(message)
ContainerErrorPolicyAny(rt, image) ==
    IF rt.type # ""
    THEN Raise("ChaliceError",
               <<"Unsupported Python version in docker image: ", image>>)
    ELSE rt

\* try: ... except docker.errors.NotFound: raise ChaliceError(message)
ContainerErrorPolicy(rt, image) ==
    IF rt.type = "NotFound"
    THEN Raise("ChaliceError",
               <<"Unsupported Python version in docker image: ", image,
                 ". See AWS Lambda Runtimes documentation for supported versions: ",
                 "https://docs.aws.amazon.com/lambda/latest/dg/lambda-runtimes.html">>)
    ELSE rt

\* env = {}; for k, v in os.environ.items(): env[k] = v; env.setdefault(...)
subprocess_env(environ) ==
    setdefault([k \in DOMAIN environ |-> environ[k]],
               "AWS_DEFAULT_REGION", "us-east-1")

\* subprocess.run(command, cwd=..., env=env): without check=True it returns
\* the completed process whatever its exit status; it raises only when the
\* executable (shutil.which('chalice')) was not found
subprocess_run(exe_found, exit) ==
    IF ~exe_found THEN Raise("TypeError", <<"expected str, not NoneType">>)
    ELSE NoError

---------------------------------------------------------------------------
(* Chalice._update_sam_template.                                           *)

FunctionType == Atom("AWS::Serverless::Function")

\* v['Type'] == 'AWS::Serverless::Function'
IsFunction(res) == DictGet(res.v, "Type") = FunctionType

\* {'Bucket': asset.s3_bucket_name, 'Key': asset.s3_object_key}
CodeUri(asset) ==
    Dict(<< <<"Bucket", Atom(asset.bucket)>>, <<"Key", Atom(asset.key)>> >>)

\* variant: function['Properties'] = {'CodeUri': uri}
SetCodeUriOnly(res, uri) ==
    Dict(DictSet(res.v, "Properties", Dict(<< <<"CodeUri", uri>> >>)))

\* function['Properties']['CodeUri'] = uri
SetCodeUri(res, uri) ==
    Dict(DictSet(res.v, "Properties",
                 Dict(DictSet(DictGet(res.v, "Properties").v, "CodeUri", uri))))

RECURSIVE RewriteResources(_, _)
\* the loop over the function resources of sam_template['Resources']
RewriteResources(items, uri) ==
    IF items = <<>> THEN <<>>
    ELSE << <<items[1][1],
              IF IsFunction(items[1][2]) THEN SetCodeUri(items[1][2], uri)
              ELSE items[1][2]>> >>
         \o RewriteResources(Tail(items), uri)

RECURSIVE ResourcesError(_)
\* the exception the comprehension or the loop raises on these resources
ResourcesError(items) ==
    IF items = <<>> THEN ""
    ELSE LET res == items[1][2]
         IN  IF ~IsDict(res) THEN "TypeError"
             ELSE IF ~HasKey(res.v, "Type") THEN "KeyError"
             ELSE IF IsFunction(res) /\ ~HasKey(res.v, "Properties")
                  THEN "KeyError"
             ELSE IF IsFunction(res) /\ ~IsDict(DictGet(res.v, "Properties"))
                  THEN "TypeError"
             ELSE ResourcesError(Tail(items))

\* the exception raised on the parsed template, "" when none
TemplateError(tpl) ==
    IF ~IsDict(tpl) THEN "TypeError"
    ELSE IF ~HasKey(tpl.v, "Resources") THEN "KeyError"
    ELSE IF ~IsDict(DictGet(tpl.v, "Resources")) THEN "AttributeError"
    ELSE ResourcesError(DictGet(tpl.v, "Resources").v)

\* the part of the method after the asset was made: [raised, template]
update_sam_template(manifest, asset) ==
    IF ~manifest.exists
    THEN [raised |-> "FileNotFoundError", template |-> Atom("?")]
    ELSE LET loaded == json_load(manifest.content)
             exc == IF ~loaded.ok THEN "JSONDecodeError"
                    ELSE TemplateError(loaded.val)
         IN  IF exc # "" THEN [raised |-> exc, template |-> Atom("?")]
             ELSE [raised |-> "",
                   template |->
                       Dict(DictSet(loaded.val.v, "Resources",
                            Dict(RewriteResources(
                                     DictGet(loaded.val.v, "Resources").v,
                                     CodeUri(asset)))))]

\* what _update_sam_template leaves in sam.json
ManifestAfterUpdate(manifest, template) == manifest

---------------------------------------------------------------------------
(* The inputs of one packaging call.                                       *)

StageNames == {"dev", "prod"}

Cfg1 == Dict(<< <<"api_gateway_stage", Atom("v1")>> >>)
Cfg2 == Dict(<< <<"api_gateway_stage", Atom("v2")>>,
                <<"autogen_policy", Atom("false")>> >>)
StageConfigs == {Dict(<<>>), Cfg1, Cfg2}

\* stores that parse and have a 'stages' mapping
ValidStores ==
    { Dict(<< <<"version", Atom("2.0")>>, <<"stages", Dict(<<>>)>> >>),
      Dict(<< <<"version", Atom("2.0")>>,
              <<"stages", Dict(<< <<"dev", Cfg2>> >>)>>,
              <<"app_name", Atom("app")>> >>),
      Dict(<< <<"stages", Dict(<< <<"dev", Cfg1>>, <<"prod", Cfg2>> >>)>> >>) }

\* stores that parse and have no 'stages' mapping
InvalidStores ==
    { Dict(<< <<"version", Atom("2.0")>> >>),
      Dict(<< <<"version", Atom("2.0")>>, <<"stages", Atom("none")>> >>),
      Atom("stages") }

File(text) == [exists |-> TRUE, content |-> text]
NoFile == [exists |-> FALSE, content |-> <<>>]

\* config.json: missing, cut short, or a store with or without a final newline
StoreFiles ==
    {NoFile, File(<<"{", "version">>)}
        \cup {File(json_dumps(x)) : x \in ValidStores \cup InvalidStores}
        \cup {File(json_dumps(x) \o <<"WS">>) : x \in ValidStores}

Environs ==
    { e \in UNION { [D -> {"eu-west-1", "", "key"}] :
                        D \in SUBSET {"AWS_DEFAULT_REGION", "SSH_KEY"} } :
        /\ "SSH_KEY" \in DOMAIN e => e["SSH_KEY"] = "key"
        /\ "AWS_DEFAULT_REGION" \in DOMAIN e
               => e["AWS_DEFAULT_REGION"] \in {"eu-west-1", ""} }

InitCommands ==
    { [i \in 1..n |-> "pip install chalice"] : n \in 1..MaxInitCommands }

NoDockerArgs ==
    [given |-> FALSE, image |-> "", env |-> None(EmptyEnv),
     init_commands |-> None(<<>>)]

DockerArgs ==
    { [given |-> TRUE, image |-> i, env |-> e, init_commands |-> c] :
        i \in {"", "my/image:1"},
        e \in {None(EmptyEnv)} \cup {Some(x) : x \in Environs},
        c \in {None(<<>>)} \cup {Some(x) : x \in InitCommands} }

FunctionNames == <<"APIHandler", "Worker", "Cron", "Queue">>
OtherNames == <<"RestAPI", "Role", "Table">>

FunctionResource(i) ==
    Dict(<< <<"Type", FunctionType>>,
            <<"Properties",
              Dict(IF i % 2 = 1
                   THEN << <<"CodeUri", Atom("./deployment.zip")>>,
                           <<"Handler", Atom("app.app")>> >>
                   ELSE << <<"Handler", Atom("app.worker")>> >>)>> >>)

OtherResource(i) ==
    Dict(<< <<"Type", Atom("AWS::Serverless::Api")>>,
            <<"Properties", Dict(<< <<"StageName", Atom("api")>> >>)>> >>)

\* a template with n function resources and m other resources
GenTemplate(n, m) ==
    Dict(<< <<"Resources",
              Dict([i \in 1..(n + m) |->
                       IF i <= n THEN <<FunctionNames[i], FunctionResource(i)>>
                       ELSE <<OtherNames[i - n], OtherResource(i - n)>>])>>,
            <<"Outputs", Atom("EndpointURL")>> >>)

NoOutput == [manifest |-> NoFile, archive |-> FALSE]

\* what a build that exits with status 0 puts in the output directory
GoodOutputs ==
    { [manifest |-> File(json_dumps(GenTemplate(n, m))), archive |-> TRUE] :
        n \in 0..MaxFunctions, m \in 0..MaxOthers }

\* what a build that exits with another status may leave there
FailedOutputs ==
    { NoOutput,
      [manifest |-> File(<<"{", "Resources">>), archive |-> TRUE],
      [manifest |-> File(json_dumps(Dict(<<>>))), archive |-> TRUE],
      [manifest |-> File(json_dumps(GenTemplate(1, 0))), archive |-> FALSE],
      [manifest |-> File(json_dumps(GenTemplate(1, 1))), archive |-> TRUE] }

Outputs(ran, exit) ==
    IF ~ran THEN {NoOutput} ELSE IF exit = 0 THEN GoodOutputs ELSE FailedOutputs

AssetKeys == {"asset-1.zip", "asset-2.zip"}

---------------------------------------------------------------------------
(* Chalice.__init__: one packaging call.                                   *)

Init ==
    /\ config_file \in StoreFiles
    /\ orig_file = config_file
    /\ stage_name \in StageNames
    /\ stage_config \in StageConfigs
    /\ docker_args \in {NoDockerArgs} \cup DockerArgs
    /\ docker_config =
           IF docker_args.given
           THEN DockerConfigInit(docker_args.image, docker_args.env,
                                 docker_args.init_commands)
           ELSE NoDockerConfig
    \* os.environ is read by the subprocess runner alone
    /\ os_environ \in IF docker_args.given THEN {EmptyEnv} ELSE Environs
    /\ pc = "start"
    /\ error = NoError
    /\ trace = <<>>
    /\ handle_open = FALSE
    /\ runner_calls = <<>>
    /\ runtime_error = NoError
    /\ build_exit = -1
    /\ out_dir = NoOutput
    /\ assets = <<>>
    /\ sam_template = Atom("?")
    /\ included = <<>>
    /\ procs = <<>>
    /\ overlap = FALSE

inputs == <<orig_file, stage_name, stage_config, docker_args, docker_config,
            os_environ, procs, overlap>>

\* variant: every step wrapped in a handler that logs and goes on
NextPcGoOn(raised, next) == next

\* where __init__ is after a step: an exception leaves it, nothing in
\* __init__ catches one
NextPc(raised, next) == IF raised THEN "failed" ELSE next

\* variant: a handler that restores the former store when a step raised
StoreAfterStepRestored(file, orig, raised) == IF raised THEN orig ELSE file

\* config.json after a later step of __init__ ended, by an exception or
\* not: __init__ has no handler that would put the former store back
StoreAfterStep(file, orig, raised) == file

\* a step of __init__ ends, with exception exc or (NoError) without
Finish(step, exc, next) ==
    /\ trace' = Append(trace, [step |-> step, raised |-> exc.type # ""])
    /\ pc' = NextPc(exc.type # "", next)
    /\ error' = exc

\* self._create_stage_with_config()
CreateStageWithConfig ==
    /\ pc = "start"
    /\ LET r == create_stage_with_config(config_file, stage_name, stage_config)
       IN  /\ config_file' = r.file
           /\ handle_open' = r.handle_open
           /\ Finish("merge",
                     IF r.raised = "" THEN NoError
                     ELSE Raise(r.raised, <<".chalice/config.json">>),
                     "merged")
    /\ UNCHANGED <<inputs, runner_calls, runtime_error, build_exit, out_dir,
                   assets, sam_template, included>>

\* self._package_app_container(sam_package_dir)
package_app_container ==
    \E daemon_ok \in BOOLEAN, image_found \in BOOLEAN, exit \in {0, 1} :
        LET rt == containers_run(docker_config.image, daemon_ok,
                                 image_found, exit)
            ran == daemon_ok /\ image_found
        IN  /\ runner_calls' =
                   Append(runner_calls,
                          [runner |-> "container",
                           image |-> docker_config.image,
                           command |-> docker_command(
                                           docker_config.init_commands,
                                           stage_name),
                           env |-> docker_config.env])
            /\ runtime_error' = rt
            /\ build_exit' = IF ran THEN exit ELSE -1
            /\ out_dir' \in Outputs(ran, exit)
            /\ Finish("build", ContainerErrorPolicy(rt, docker_config.image),
                      "packaged")

\* self._package_app_subprocess(sam_package_dir)
package_app_subprocess ==
    \E exe_found \in BOOLEAN, exit \in {0, 1} :
        /\ runner_calls' =
               Append(runner_calls,
                      [runner |-> "subprocess",
                       image |-> "",
                       command |-> <<"chalice", "package", "--stage",
                                     stage_name, "chalice.out/uuid">>,
                       env |-> subprocess_env(os_environ)])
        /\ runtime_error' = runtime_error
        /\ build_exit' = IF exe_found THEN exit ELSE -1
        /\ out_dir' \in Outputs(exe_found, exit)
        /\ Finish("build", subprocess_run(exe_found, exit), "packaged")

\* sam_package_dir = self._package_app()
PackageApp ==
    /\ pc = "merged"
    /\ \/ /\ SelectRunner(docker_config) = "container"
          /\ package_app_container
       \/ /\ SelectRunner(docker_config) # "container"
          /\ package_app_subprocess
    /\ config_file' = StoreAfterStep(config_file, orig_file, error'.type # "")
    /\ UNCHANGED <<inputs, handle_open, assets, sam_template, included>>

\* sam_template = self._update_sam_template(sam_package_dir)
UpdateSamTemplate ==
    /\ pc = "packaged"
    /\ \/ /\ ~out_dir.archive
          /\ Finish("rewrite",
                    Raise("RuntimeError",
                          <<"Cannot find asset", "deployment.zip">>),
                    "templated")
          /\ UNCHANGED <<assets, sam_template, out_dir>>
       \/ /\ out_dir.archive
          /\ \E key \in AssetKeys :
               LET asset == [path |-> "deployment.zip",
                             bucket |-> "cdk-assets", key |-> key]
                   r == update_sam_template(out_dir.manifest, asset)
               IN  /\ assets' = Append(assets, asset)
                   /\ sam_template' =
                          IF r.raised = "" THEN r.template ELSE sam_template
                   /\ out_dir' =
                          [out_dir EXCEPT
                             !.manifest = ManifestAfterUpdate(@, r.template)]
                   /\ Finish("rewrite",
                             IF r.raised = "" THEN NoError
                             ELSE Raise(r.raised, <<"sam.json">>),
                             "templated")
    /\ config_file' = StoreAfterStep(config_file, orig_file, error'.type # "")
    /\ UNCHANGED <<inputs, handle_open, runner_calls, runtime_error,
                   build_exit, included>>

\* cdk.CfnInclude(self, 'ChaliceApp', template=sam_template)
CfnInclude ==
    /\ pc = "templated"
    /\ \E ok \in BOOLEAN :
         /\ included' =
                IF ok
                THEN Append(included,
                            [id |-> "ChaliceApp", template |-> sam_template])
                ELSE included
         /\ Finish("include",
                   IF ok THEN NoError ELSE Raise("JSIIError", <<"ChaliceApp">>),
                   "done")
    /\ config_file' = StoreAfterStep(config_file, orig_file, error'.type # "")
    /\ UNCHANGED <<inputs, handle_open, runner_calls, runtime_error,
                   build_exit, out_dir, assets, sam_template>>

Next ==
    \/ CreateStageWithConfig
    \/ PackageApp
    \/ UpdateSamTemplate
    \/ CfnInclude

Spec == Init /\ [][Next]_vars

---------------------------------------------------------------------------
(* Two packaging calls merging into the same config.json at once.  Each    *)
(* runs _create_stage_with_config on its own handle; the steps are the     *)
(* system calls the method makes: the read of json.load, the write at      *)
(* offset 0, and the truncate followed by the close of the with block.     *)

Calls == {1, 2}

InitConc ==
    /\ config_file \in {File(json_dumps(x)) : x \in ValidStores}
                       \cup {File(json_dumps(x) \o <<"WS">>) : x \in ValidStores}
    /\ orig_file = config_file
    /\ procs \in { <<[pc |-> "start", stage |-> s1, cfg |-> c1,
                      raised |-> "", config |-> Atom("?"), pos |-> 0],
                     [pc |-> "start", stage |-> s2, cfg |-> c2,
                      raised |-> "", config |-> Atom("?"), pos |-> 0]>> :
                     s1 \in StageNames, s2 \in StageNames,
                     c1 \in StageConfigs, c2 \in StageConfigs }
    /\ procs[1].stage # procs[2].stage
    /\ overlap = FALSE
    /\ stage_name = ""
    /\ stage_config = Dict(<<>>)
    /\ docker_args = NoDockerArgs
    /\ docker_config = NoDockerConfig
    /\ os_environ = EmptyEnv
    /\ pc = "start"
    /\ error = NoError
    /\ trace = <<>>
    /\ handle_open = FALSE
    /\ runner_calls = <<>>
    /\ runtime_error = NoError
    /\ build_exit = -1
    /\ out_dir = NoOutput
    /\ assets = <<>>
    /\ sam_template = Atom("?")
    /\ included = <<>>

single == <<orig_file, stage_name, stage_config, docker_args, docker_config,
            os_environ, pc, error, trace, handle_open, runner_calls,
            runtime_error, build_exit, out_dir, assets, sam_template,
            included>>

\* open(config_path, 'r+'); config = json.load(config_file);
\* config['stages'][self.stage_name] = self.stage_config
MergeLoad(p) ==
    /\ procs[p].pc = "start"
    /\ LET loaded == json_load(config_file.content)
           exc == IF ~loaded.ok THEN "JSONDecodeError"
                  ELSE SubscriptError(loaded.val)
       IN  procs' =
               [procs EXCEPT ![p] =
                   IF exc # ""
                   THEN [@ EXCEPT !.pc = "closed", !.raised = exc]
                   ELSE [@ EXCEPT !.pc = "loaded",
                                  !.config = MergedConfig(loaded.val,
                                                          procs[p].stage,
                                                          procs[p].cfg),
                                  !.pos = Len(config_file.content)]]
    /\ overlap' = (overlap \/ \E q \in Calls \ {p} :
                                 procs[q].pc \in {"loaded", "written"})
    /\ UNCHANGED <<config_file, single>>

\* config_file.seek(0); config_file.write(json.dumps(config, indent=2))
MergeWrite(p) ==
    /\ procs[p].pc = "loaded"
    /\ LET text == json_dumps(procs[p].config)
           pos == SeekStart(procs[p].pos)
       IN  /\ config_file' =
                  [config_file EXCEPT !.content = FileWrite(@, pos, text)]
           /\ procs' = [procs EXCEPT ![p].pc = "written",
                                     ![p].pos = pos + Len(text)]
    /\ UNCHANGED <<overlap, single>>

\* config_file.truncate(), and the end of the with block
MergeTruncate(p) ==
    /\ procs[p].pc = "written"
    /\ config_file' =
           [config_file EXCEPT !.content = FileTruncate(@, procs[p].pos)]
    /\ procs' = [procs EXCEPT ![p].pc = "closed"]
    /\ UNCHANGED <<overlap, single>>

NextConc ==
    \E p \in Calls : MergeLoad(p) \/ MergeWrite(p) \/ MergeTruncate(p)

SpecConc == InitConc /\ [][NextConc]_vars

---------------------------------------------------------------------------
(* Properties.                                                             *)

Stepped(step) == \E i \in 1..Len(trace) : trace[i].step = step
StepOk(step) ==
    \E i \in 1..Len(trace) : trace[i].step = step /\ ~trace[i].raised

\* a store file that parses and has a 'stages' mapping
ValidStoreFile(f) ==
    /\ f.exists
    /\ json_load(f.content).ok
    /\ IsDict(json_load(f.content).val)
    /\ HasKey(json_load(f.content).val.v, "stages")
    /\ IsDict(DictGet(json_load(f.content).val.v, "stages"))

StoreOf(f) == json_load(f.content).val.v
StagesOf(f) == DictGet(StoreOf(f), "stages").v

\* C1: once the merge has run on a store that parses and has a 'stages'
\* mapping, the store file parses, stages[stage_name] is stage_config,
\* every other stage and every top-level key other than 'stages' is what it
\* was before the call.
C1_MergeFrame ==
    (Stepped("merge") /\ ValidStoreFile(orig_file)) =>
        /\ StepOk("merge")
        /\ ValidStoreFile(config_file)
        /\ HasKey(StagesOf(config_file), stage_name)
        /\ DictGet(StagesOf(config_file), stage_name) = stage_config
        /\ DictDel(StagesOf(config_file), stage_name)
               = DictDel(StagesOf(orig_file), stage_name)
        /\ DictDel(StoreOf(config_file), "stages")
               = DictDel(StoreOf(orig_file), "stages")

\* the merge replaced a stage that existed with another config, beside
\* another stage
C1_Witness ==
    /\ StepOk("merge")
    /\ ValidStoreFile(orig_file)
    /\ HasKey(StagesOf(orig_file), stage_name)
    /\ DictGet(StagesOf(orig_file), stage_name) # stage_config
    /\ DictDel(StagesOf(orig_file), stage_name) # <<>>

ResourcesOf(tpl) == DictGet(tpl.v, "Resources").v
PropertiesOf(res) == DictGet(res.v, "Properties").v

C2_Rewritten ==
    StepOk("rewrite") =>
        LET old == json_load(out_dir.manifest.content).val
        IN  /\ Len(assets) = 1
            /\ DictDel(sam_template.v, "Resources") = DictDel(old.v, "Resources")
            /\ Len(ResourcesOf(sam_template)) = Len(ResourcesOf(old))
            /\ \A i \in 1..Len(ResourcesOf(old)) :
                 LET o == ResourcesOf(old)[i][2]
                     n == ResourcesOf(sam_template)[i][2]
                 IN  /\ ResourcesOf(sam_template)[i][1] = ResourcesOf(old)[i][1]
                     /\ IF DictGet(o.v, "Type")
                              = Atom("AWS::Serverless::Function")
                        THEN /\ HasKey(PropertiesOf(n), "CodeUri")
                             /\ DictGet(PropertiesOf(n), "CodeUri")
                                  = Dict(<< <<"Bucket", Atom(assets[1].bucket)>>,
                                            <<"Key", Atom(assets[1].key)>> >>)
                             /\ DictDel(PropertiesOf(n), "CodeUri")
                                  = DictDel(PropertiesOf(o), "CodeUri")
                             /\ DictDel(n.v, "Properties")
                                  = DictDel(o.v, "Properties")
                        ELSE n = o

\* C2: after _update_sam_template returned, one asset was made, every
\* function resource of the manifest has CodeUri = {Bucket, Key} of that
\* asset and is otherwise as in the manifest, every other resource and
\* top-level key is as in the manifest; and the step leaves sam.json and
\* the archive as they were.
C2_ManifestRewrite ==
    /\ [](Len(assets) <= 1 /\ C2_Rewritten)
    /\ [][pc = "packaged" => out_dir' = out_dir]_vars

\* a manifest of two function resources and one other resource was rewritten
C2_Witness ==
    /\ StepOk("rewrite")
    /\ Len(ResourcesOf(sam_template)) = 3
    /\ IsFunction(ResourcesOf(sam_template)[1][2])
    /\ IsFunction(ResourcesOf(sam_template)[2][2])
    /\ ~IsFunction(ResourcesOf(sam_template)[3][2])

\* a manifest without function resources was rewritten: one asset all the same
C2_WitnessNone ==
    /\ StepOk("rewrite")
    /\ ResourcesOf(sam_template) = <<>>
    /\ Len(assets) = 1

StepOrder == <<"merge", "build", "rewrite", "include">>

\* C3: the steps start in the order merge, build, rewrite, include, each
\* only after all earlier ones ended without exception; a step that raised
\* is the last one; a runner, an asset and the hand-over each exist only
\* after the steps before them succeeded, and the template is handed over
\* once, under the id 'ChaliceApp', only after steps 1-3 succeeded.
C3_StepOrder ==
    /\ Len(trace) <= 4
    /\ \A i \in 1..Len(trace) :
         /\ trace[i].step = StepOrder[i]
         /\ i < Len(trace) => ~trace[i].raised
    /\ pc = "failed" <=> (trace # <<>> /\ trace[Len(trace)].raised)
    /\ pc = "done" <=> (Len(trace) = 4 /\ ~trace[4].raised)
    /\ runner_calls # <<>> => StepOk("merge")
    /\ assets # <<>> => StepOk("merge") /\ StepOk("build")
    /\ included # <<>> =>
         /\ StepOk("merge") /\ StepOk("build") /\ StepOk("rewrite")
         /\ included = <<[id |-> "ChaliceApp", template |-> sam_template]>>

\* the build raised: the call failed after two steps, nothing was published
C3_Witness ==
    /\ pc = "failed"
    /\ Len(trace) = 2
    /\ assets = <<>>
    /\ included = <<>>

\* C4: when the merge succeeded, whatever happens in the later steps the
\* store file is the one the merge wrote, with stages[stage_name] =
\* stage_config; in particular after the call failed.
C4_NoRollback ==
    StepOk("merge") =>
        /\ config_file
             = create_stage_with_config(orig_file, stage_name,
                                        stage_config).file
        /\ ValidStoreFile(config_file)
        /\ HasKey(StagesOf(config_file), stage_name)
        /\ DictGet(StagesOf(config_file), stage_name) = stage_config

\* the hand-over failed after a merge that changed the store
C4_Witness ==
    /\ pc = "failed"
    /\ Len(trace) = 4
    /\ config_file # orig_file

\* C5: whenever the build tool exits with a non-zero status, the build step
\* raises.
C5_BuildFailureRaises ==
    (Stepped("build") /\ build_exit > 0) => trace[2].raised

\* C6: in the container runner, an image the runtime does not find makes
\* the call fail with a ChaliceError whose message holds the image of the
\* DockerConfig, and no asset is made nor template handed over; any other
\* error of the runtime leaves the call as it was raised.
C6_ContainerErrors ==
    (Stepped("build") /\ runner_calls[1].runner = "container") =>
        /\ runtime_error.type = "NotFound" =>
             /\ pc = "failed"
             /\ error.type = "ChaliceError"
             /\ \E i \in 1..Len(error.message) :
                  error.message[i] = docker_config.image
             /\ Len(trace) = 2
             /\ assets = <<>>
             /\ included = <<>>
        /\ runtime_error.type \notin {"", "NotFound"} =>
             /\ pc = "failed"
             /\ error = runtime_error
             /\ error.type # "ChaliceError"

\* the default image was not found
C6_Witness ==
    /\ Stepped("build")
    /\ runtime_error.type = "NotFound"
    /\ docker_args.image = ""
    /\ error.type = "ChaliceError"

\* the environment the caller supplied to the runner that ran
CallerEnv ==
    IF docker_args.given THEN docker_args.env.val ELSE os_environ

\* env keeps every variable of caller, and has the region of caller or,
\* when caller has none, us-east-1
RegionDefaulted(env, caller) ==
    /\ "AWS_DEFAULT_REGION" \in DOMAIN env
    /\ env["AWS_DEFAULT_REGION"]
         = IF "AWS_DEFAULT_REGION" \in DOMAIN caller
           THEN caller["AWS_DEFAULT_REGION"] ELSE "us-east-1"
    /\ \A k \in DOMAIN caller : k \in DOMAIN env /\ env[k] = caller[k]

\* C7: the env of a DockerConfig, and the environment given to the build
\* by either runner, hold every variable the caller supplied unchanged, and
\* AWS_DEFAULT_REGION with the caller's value or else 'us-east-1'.
C7_RegionDefault ==
    /\ docker_config.present =>
         RegionDefaulted(docker_config.env, docker_args.env.val)
    /\ Stepped("build") => RegionDefaulted(runner_calls[1].env, CallerEnv)

\* the container was given a caller's region and another variable
C7_Witness ==
    /\ Stepped("build")
    /\ runner_calls[1].runner = "container"
    /\ DOMAIN docker_args.env.val = {"AWS_DEFAULT_REGION", "SSH_KEY"}
    /\ runner_calls[1].env["AWS_DEFAULT_REGION"] = "eu-west-1"

\* the child process was given the default region
C7_WitnessDefault ==
    /\ Stepped("build")
    /\ runner_calls[1].runner = "subprocess"
    /\ "AWS_DEFAULT_REGION" \notin DOMAIN os_environ
    /\ runner_calls[1].env["AWS_DEFAULT_REGION"] = "us-east-1"

\* C8: no runner is invoked before _package_app, and once it ran exactly
\* one runner was invoked, once: the container runner if a docker_config
\* was given and the subprocess runner if not, also after it failed.
C8_RunnerSelection ==
    /\ ~Stepped("build") => runner_calls = <<>>
    /\ Stepped("build") =>
         /\ Len(runner_calls) = 1
         /\ runner_calls[1].runner \in {"container", "subprocess"}
         /\ runner_calls[1].runner = "container" <=> docker_args.given
         /\ runner_calls[1].runner = "subprocess" <=> ~docker_args.given

\* the container runner failed and no other runner was tried
C8_Witness ==
    /\ pc = "failed"
    /\ Len(trace) = 2
    /\ runner_calls # <<>>
    /\ runner_calls[1].runner = "container"
    /\ Len(runner_calls) = 1

AllClosed == \A p \in Calls : procs # <<>> /\ procs[p].pc = "closed"

\* the store file holds the stage of call p with the config of call p
HoldsStageOf(p) ==
    /\ ValidStoreFile(config_file)
    /\ HasKey(StagesOf(config_file), procs[p].stage)
    /\ DictGet(StagesOf(config_file), procs[p].stage) = procs[p].cfg

\* neither call read a store that had the other call's stage
NeitherSawOther ==
    \A p \in Calls : \A q \in Calls \ {p} :
        /\ procs[p].raised = ""
        /\ ~HasKey(DictGet(procs[p].config.v, "stages").v, procs[q].stage)

\* C9: when both merges have ended: if they did not overlap, neither
\* raised and the store holds both stages; if each read the store before
\* the other's write reached it, the store does not hold both stages.
C9_LostUpdate ==
    AllClosed =>
        /\ ~overlap =>
             \A p \in Calls : procs[p].raised = "" /\ HoldsStageOf(p)
        /\ NeitherSawOther => \E p \in Calls : ~HoldsStageOf(p)

\* both merges ended without exception, the store parses, and one of the
\* two stages is not in it
C9_Witness ==
    /\ AllClosed
    /\ overlap
    /\ \A p \in Calls : procs[p].raised = ""
    /\ ValidStoreFile(config_file)
    /\ \E p \in Calls : ~HasKey(StagesOf(config_file), procs[p].stage)
    /\ \E p \in Calls : HoldsStageOf(p)

\* C10: once the merge has run on a store that is missing, does not parse
\* or has no 'stages' mapping, the call has failed in its first step, the
\* store file is what it was, no handle on it is open, and no runner was
\* invoked, no asset made and no template handed over.
C10_FailedMerge ==
    /\ ~handle_open
    /\ (Stepped("merge") /\ ~ValidStoreFile(orig_file)) =>
        /\ pc = "failed"
        /\ trace = <<[step |-> "merge", raised |-> TRUE]>>
        /\ error.type # ""
        /\ config_file = orig_file
        /\ runner_calls = <<>>
        /\ build_exit = -1
        /\ assets = <<>>
        /\ included = <<>>

\* the merge failed on a store file that exists and does not parse
C10_Witness ==
    /\ Stepped("merge")
    /\ orig_file.exists
    /\ ~json_load(orig_file.content).ok
    /\ pc = "failed"

=============================================================================
